---- MODULE Spec2Model ----
(***************************************************************************)
(* Order controllers of src/api/controllers/orderControllers.js.           *)
(*                                                                         *)
(* The module models the seven exported/ routed operations as handlers     *)
(* that run concurrently in request slots.  A handler suspends at every    *)
(* external call (store query, gateway call, notification) and resumes in  *)
(* its callback / continuation, so each suspension point is a separate     *)
(* action and other requests may interleave there.                         *)
(*                                                                         *)
(* JavaScript values are tagged records [t |-> type, v |-> payload];       *)
(* amounts are integers in cents.                                          *)
(***************************************************************************)
EXTENDS Integers, Sequences, FiniteSets, TLC

(***************************************************************************)
(* Bounds of the model.                                                    *)
(***************************************************************************)
\* number of request slots, i.e. of requests that can be in flight at once
MaxInFlight == 2
\* number of identifiers the store's AUTO_INCREMENT column hands out
MaxOrders == 2

Slots == 1..MaxInFlight

(***************************************************************************)
(* JavaScript values.                                                      *)
(***************************************************************************)
Undefined == [t |-> "undefined"]
Null == [t |-> "null"]
Num(n) == [t |-> "number", v |-> n]
Str(s) == [t |-> "string", v |-> s]
Arr(s) == [t |-> "array", v |-> s]
Obj(r) == [t |-> "object", v |-> r]

\* ToBoolean, as used by `!x` and `x || y`
Truthy(x) ==
    CASE x.t \in {"undefined", "null"} -> FALSE
      [] x.t = "number" -> x.v # 0
      [] x.t = "string" -> x.v # ""
      [] OTHER -> TRUE

\* Array.isArray
IsArray(x) == x.t = "array"

\* property read o.name; reading a property of undefined/null throws
CanRead(o) == o.t \notin {"undefined", "null"}
Prop(o, name) ==
    IF o.t = "object" /\ name \in DOMAIN o.v THEN o.v[name] ELSE Undefined

\* x || y
OrElse(x, y) == IF Truthy(x) THEN x ELSE y

(***************************************************************************)
(* JSON.stringify of the values a request body can carry, as a sequence of *)
(* tokens.  Object members are written in the order productName, quantity, *)
(* price; members whose value is undefined are omitted, and an undefined   *)
(* array element is written as null.                                       *)
(***************************************************************************)
Tok(s) == [t |-> "punct", v |-> s]
ItemKeys == <<"productName", "quantity", "price">>

RECURSIVE JoinTokens(_, _)
JoinTokens(parts, sep) ==
    IF Len(parts) = 0 THEN << >>
    ELSE IF Len(parts) = 1 THEN parts[1]
    ELSE parts[1] \o <<sep>> \o JoinTokens(Tail(parts), sep)

StringifyMember(o, k) == <<Str(k), Tok(":"), o.v[k]>>

StringifyScalar(x) ==
    CASE x.t = "object" ->
           <<Tok("{")>>
           \o JoinTokens(
                [i \in 1..Len(SelectSeq(ItemKeys, LAMBDA k : k \in DOMAIN x.v /\ x.v[k].t # "undefined"))
                   |-> StringifyMember(x, SelectSeq(ItemKeys, LAMBDA k : k \in DOMAIN x.v /\ x.v[k].t # "undefined")[i])],
                Tok(","))
           \o <<Tok("}")>>
      [] x.t = "undefined" -> <<Null>>
      [] OTHER -> <<x>>

JSONStringify(x) ==
    IF x.t = "array"
    THEN <<Tok("[")>>
         \o JoinTokens([i \in 1..Len(x.v) |-> StringifyScalar(x.v[i])], Tok(","))
         \o <<Tok("]")>>
    ELSE StringifyScalar(x)

(***************************************************************************)
(* HTTP responses: a status code and a JSON body (field name -> value).    *)
(***************************************************************************)
Response(code, body) == [status |-> code, body |-> body]

(***************************************************************************)
(* State.                                                                  *)
(***************************************************************************)
VARIABLES
    orders,     \* the `orders` table: id -> row
    nextId,     \* the table's AUTO_INCREMENT counter
    req         \* request slots: the handler running in each and its locals

vars == <<orders, nextId, req>>

IdleSlot ==
    [op |-> "none", pc |-> "idle", in |-> Undefined, res |-> Undefined,
     out |-> << >>, inserts |-> 0, notified |-> 0,
     gwCreate |-> 0, gwCapture |-> 0, added |-> {}, reply |-> Undefined]

Free(s) == req[s].pc \in {"idle", "done"}

\* a new request entering slot s
NewReq(op, input) == [IdleSlot EXCEPT !.op = op, !.in = input, !.pc = "start"]

\* res.status(code).json(body) ends the handler
Respond(r, code, body) ==
    [r EXCEPT !.pc = "done", !.out = Append(@, Response(code, body))]

Init ==
    /\ orders = << >>
    /\ nextId = 1
    /\ req = [s \in Slots |-> IdleSlot]

(***************************************************************************)
(* The store: the SQL statements the handlers issue against `orders`.      *)
(***************************************************************************)
\* INSERT INTO orders (...) VALUES (?, ?, ?, ?, ?, ?, ?, ?, ?)
InsertRow(tbl, id, values) == tbl @@ (id :> values)

\* UPDATE without its WHERE clause
UpdateStatusAll(tbl, id, status) ==
    [k \in DOMAIN tbl |-> [tbl[k] EXCEPT !.order_status = status]]

\* UPDATE that refuses to leave the captured status
UpdateStatusForwardOnly(tbl, id, status) ==
    [k \in DOMAIN tbl |->
        IF k = id /\ tbl[k].order_status # Str("captured")
        THEN [tbl[k] EXCEPT !.order_status = status] ELSE tbl[k]]

\* UPDATE guarded by the status the order was created with (compare-and-set)
UpdateStatusIfPending(tbl, id, status) ==
    [k \in DOMAIN tbl |->
        IF k = id /\ tbl[k].order_status = Str("pending")
        THEN [tbl[k] EXCEPT !.order_status = status] ELSE tbl[k]]

\* UPDATE orders SET order_status = ? WHERE id = ?
UpdateStatus(tbl, id, status) ==
    [k \in DOMAIN tbl |-> IF k = id THEN [tbl[k] EXCEPT !.order_status = status] ELSE tbl[k]]

\* a DELETE that leaves the row in place
DeleteRowKept(tbl, id) == [k \in DOMAIN tbl |-> tbl[k]]

\* DELETE without its WHERE clause
DeleteRowAll(tbl, id) == [k \in {} |-> tbl[k]]

\* DELETE FROM orders WHERE id = ?
DeleteRow(tbl, id) == [k \in DOMAIN tbl \ {id} |-> tbl[k]]

\* rows matched by `WHERE id = ?`
Matching(tbl, id) == {k \in DOMAIN tbl : k = id}

\* an infrastructure error reported by the store to a query callback
DbError == [err |-> Str("ECONNREFUSED")]

(***************************************************************************)
(* placeOrder (store-first flow).                                          *)
(***************************************************************************)
User1 ==
    Obj([email_customer |-> Str("ann@example.org"), user_Name |-> Str("Ann"),
         ville |-> Str("Douala"), quartier |-> Str("Akwa"),
         phoneNumber |-> Str("600000000")])

Item1 == Obj([productName |-> Str("A"), quantity |-> Num(2), price |-> Num(300)])

\* `!user || !cartItems || !Array.isArray(cartItems) || !totalAmount || !paymentMethod`
IncompleteOrder(b) ==
    \/ ~Truthy(b.user)
    \/ ~Truthy(b.cartItems)
    \/ ~IsArray(b.cartItems)
    \/ ~Truthy(b.totalAmount)
    \/ ~Truthy(b.paymentMethod)

\* OrderValues without the `|| 'pending'` default
OrderValuesNoDefault(b) ==
    [email |-> Prop(b.user, "email_customer"),
     username |-> Prop(b.user, "user_Name"),
     ville |-> Prop(b.user, "ville"),
     quartier |-> Prop(b.user, "quartier"),
     phoneNumber |-> Prop(b.user, "phoneNumber"),
     paymentMethod |-> b.paymentMethod,
     totalAmount |-> b.totalAmount,
     order_status |-> b.order_status,
     cartItems |-> JSONStringify(b.cartItems)]

\* the `values` array bound to the INSERT statement
OrderValues(b) ==
    [email |-> Prop(b.user, "email_customer"),
     username |-> Prop(b.user, "user_Name"),
     ville |-> Prop(b.user, "ville"),
     quartier |-> Prop(b.user, "quartier"),
     phoneNumber |-> Prop(b.user, "phoneNumber"),
     paymentMethod |-> b.paymentMethod,
     totalAmount |-> b.totalAmount,
     order_status |-> OrElse(b.order_status, Str("pending")),
     cartItems |-> JSONStringify(b.cartItems)]

\* `cartItems.map(item => item.productName)` throws a TypeError on a null item
OrderDetailsThrows(b) == \E i \in 1..Len(b.cartItems.v) : ~CanRead(b.cartItems.v[i])

\* a db.query that throws after it has queued the statement: the outer catch
\* answers and the callback still runs
PlaceOrderBothRespond(s, b) ==
    /\ Free(s)
    /\ \/ /\ IncompleteOrder(b)
          /\ req' = [req EXCEPT ![s] =
                Respond(NewReq("placeOrder", b), 400,
                        [error |-> Str("Donnees de commande incompletes.")])]
       \/ /\ ~IncompleteOrder(b)
          /\ req' = [req EXCEPT ![s] =
                [NewReq("placeOrder", b) EXCEPT !.pc = "query", !.inserts = 1]]
       \/ /\ ~IncompleteOrder(b)
          /\ req' = [req EXCEPT ![s] =
                [Respond(NewReq("placeOrder", b), 500,
                         [error |-> Str("Erreur lors de la creation de la commande.")])
                    EXCEPT !.pc = "query", !.inserts = 1]]
    /\ UNCHANGED <<orders, nextId>>

\* the handler up to and including the call of db.query
PlaceOrder(s, b) ==
    /\ Free(s)
    /\ \/ /\ IncompleteOrder(b)
          /\ req' = [req EXCEPT ![s] =
                Respond(NewReq("placeOrder", b), 400,
                        [error |-> Str("Donnees de commande incompletes.")])]
       \/ /\ ~IncompleteOrder(b)
          /\ req' = [req EXCEPT ![s] =
                [NewReq("placeOrder", b) EXCEPT !.pc = "query", !.inserts = 1]]
       \/ \* db.query throws synchronously: the outer catch answers
          /\ ~IncompleteOrder(b)
          /\ req' = [req EXCEPT ![s] =
                Respond(NewReq("placeOrder", b), 500,
                        [error |-> Str("Erreur lors de la creation de la commande.")])]
    /\ UNCHANGED <<orders, nextId>>

\* the store executes the INSERT
PlaceOrderInsert(s) ==
    /\ req[s].op = "placeOrder" /\ req[s].pc = "query"
    /\ \/ /\ nextId <= MaxOrders
          /\ orders' = InsertRow(orders, nextId, OrderValues(req[s].in))
          /\ nextId' = nextId + 1
          /\ req' = [req EXCEPT ![s].pc = "callback",
                                ![s].res = [insertId |-> nextId],
                                ![s].added = @ \cup {nextId}]
       \/ /\ req' = [req EXCEPT ![s].pc = "callback", ![s].res = DbError]
          /\ UNCHANGED <<orders, nextId>>

\* a callback that dispatches the notification before it looks at err
PlaceOrderCallbackEager(s) ==
    /\ req[s].op = "placeOrder" /\ req[s].pc = "callback"
    /\ IF "err" \in DOMAIN req[s].res
       THEN req' = [req EXCEPT ![s] =
                Respond([@ EXCEPT !.notified = @ + 1], 500,
                        [error |-> Str("Erreur lors de la creation de la commande."),
                         details |-> req[s].res.err])]
       ELSE IF OrderDetailsThrows(req[s].in)
       THEN req' = [req EXCEPT ![s] =
                Respond(@, 500,
                        [error |-> Str("Commande creee, mais echec de l'envoi de la notification."),
                         details |-> Str("Cannot read properties of null")])]
       ELSE req' = [req EXCEPT ![s].pc = "notify", ![s].notified = @ + 1]
    /\ UNCHANGED <<orders, nextId>>

\* the query callback, up to the await of SendOrderNotification
PlaceOrderCallback(s) ==
    /\ req[s].op = "placeOrder" /\ req[s].pc = "callback"
    /\ IF "err" \in DOMAIN req[s].res
       THEN req' = [req EXCEPT ![s] =
                Respond(@, 500,
                        [error |-> Str("Erreur lors de la creation de la commande."),
                         details |-> req[s].res.err])]
       ELSE IF OrderDetailsThrows(req[s].in)
       THEN req' = [req EXCEPT ![s] =
                Respond(@, 500,
                        [error |-> Str("Commande creee, mais echec de l'envoi de la notification."),
                         details |-> Str("Cannot read properties of null")])]
       ELSE req' = [req EXCEPT ![s].pc = "notify", ![s].notified = @ + 1]
    /\ UNCHANGED <<orders, nextId>>

\* the answer sent when SendOrderNotification resolves (ok) or rejects
NotificationSent(r) ==
    Respond(r, 201,
            [message |-> Str("Commande creee avec succes."),
             orderId |-> Num(r.res.insertId)])

NotificationFailed(r) ==
    Respond([r EXCEPT !.res = [insertId |-> r.res.insertId, emailError |-> Str("SMTP timeout")]],
            500,
            [error |-> Str("Commande creee, mais echec de l'envoi de la notification."),
             details |-> Str("SMTP timeout")])

\* SendOrderNotification settles and the callback resumes
PlaceOrderNotified(s) ==
    /\ req[s].op = "placeOrder" /\ req[s].pc = "notify"
    /\ \/ req' = [req EXCEPT ![s] = NotificationSent(@)]
       \/ req' = [req EXCEPT ![s] = NotificationFailed(@)]
    /\ UNCHANGED <<orders, nextId>>

\* request bodies: a complete order and its one-field variations
BaseBody ==
    [user |-> User1, cartItems |-> Arr(<<Item1>>), totalAmount |-> Num(600),
     paymentMethod |-> Str("cash"), order_status |-> Undefined]

PlaceBodies ==
    {BaseBody}
    \cup {[BaseBody EXCEPT !.user = Undefined]}
    \cup {[BaseBody EXCEPT !.cartItems = x] :
            x \in {Undefined, Obj([length |-> Num(1)]), Arr(<< >>), Arr(<<Null>>)}}
    \cup {[BaseBody EXCEPT !.totalAmount = x] : x \in {Undefined, Num(0), Num(-500)}}
    \cup {[BaseBody EXCEPT !.paymentMethod = Undefined]}
    \cup {[BaseBody EXCEPT !.order_status = x] : x \in {Str(""), Str("captured")}}

(***************************************************************************)
(* getAllOrder, getOrderById, updateOrder, deleteOrder.                    *)
(* The `id` path parameter is modelled by the number the store compares    *)
(* it with; Undefined is a missing parameter.                              *)
(***************************************************************************)
RECURSIVE SortedIds(_)
SortedIds(ids) ==
    IF ids = {} THEN << >>
    ELSE LET m == CHOOSE x \in ids : \A y \in ids : x <= y
         IN <<m>> \o SortedIds(ids \ {m})

\* a row as a query returns it: the columns together with the id
RowOf(tbl, k) == [id |-> Num(k)] @@ tbl[k]

\* SELECT * FROM orders
SelectAll(tbl) == [i \in 1..Cardinality(DOMAIN tbl) |-> RowOf(tbl, SortedIds(DOMAIN tbl)[i])]

\* SELECT * FROM orders WHERE id = ?
SelectById(tbl, id) ==
    [i \in 1..Cardinality(Matching(tbl, id)) |-> RowOf(tbl, SortedIds(Matching(tbl, id))[i])]

IdOf(param) == IF param.t = "number" THEN param.v ELSE 0

GetAllOrder(s) ==
    /\ Free(s)
    /\ req' = [req EXCEPT ![s] = [NewReq("getAllOrder", Undefined) EXCEPT !.pc = "query"]]
    /\ UNCHANGED <<orders, nextId>>

GetAllOrderQuery(s) ==
    /\ req[s].op = "getAllOrder" /\ req[s].pc = "query"
    /\ \/ req' = [req EXCEPT ![s].pc = "callback", ![s].res = [results |-> SelectAll(orders)]]
       \/ req' = [req EXCEPT ![s].pc = "callback", ![s].res = DbError]
    /\ UNCHANGED <<orders, nextId>>

GetAllOrderCallback(s) ==
    /\ req[s].op = "getAllOrder" /\ req[s].pc = "callback"
    /\ IF "err" \in DOMAIN req[s].res
       THEN req' = [req EXCEPT ![s] =
                Respond(@, 500, [error |-> Str("Database error during orders retrieval"),
                                 details |-> req[s].res.err])]
       ELSE req' = [req EXCEPT ![s] =
                Respond(@, 200, [message |-> Str("Orders retrieved successfully"),
                                 data |-> Arr(req[s].res.results)])]
    /\ UNCHANGED <<orders, nextId>>

GetOrderById(s, id) ==
    /\ Free(s)
    /\ IF ~Truthy(id)
       THEN req' = [req EXCEPT ![s] =
                Respond(NewReq("getOrderById", [id |-> id]), 400,
                        [error |-> Str("Order ID is required")])]
       ELSE req' = [req EXCEPT ![s] =
                [NewReq("getOrderById", [id |-> id]) EXCEPT !.pc = "query"]]
    /\ UNCHANGED <<orders, nextId>>

GetOrderByIdQuery(s) ==
    /\ req[s].op = "getOrderById" /\ req[s].pc = "query"
    /\ \/ req' = [req EXCEPT ![s].pc = "callback",
                             ![s].res = [results |-> SelectById(orders, IdOf(req[s].in.id))]]
       \/ req' = [req EXCEPT ![s].pc = "callback", ![s].res = DbError]
    /\ UNCHANGED <<orders, nextId>>

GetOrderByIdCallback(s) ==
    /\ req[s].op = "getOrderById" /\ req[s].pc = "callback"
    /\ IF "err" \in DOMAIN req[s].res
       THEN req' = [req EXCEPT ![s] =
                Respond(@, 500, [error |-> Str("Database error during order retrieval"),
                                 details |-> req[s].res.err])]
       ELSE IF Len(req[s].res.results) = 0
       THEN req' = [req EXCEPT ![s] = Respond(@, 404, [error |-> Str("Order not found")])]
       ELSE req' = [req EXCEPT ![s] = Respond(@, 200, req[s].res.results[1])]
    /\ UNCHANGED <<orders, nextId>>

UpdateOrder(s, id, orderStatus) ==
    /\ Free(s)
    /\ LET r == NewReq("updateOrder", [id |-> id, orderStatus |-> orderStatus])
       IN IF ~Truthy(id)
          THEN req' = [req EXCEPT ![s] = Respond(r, 400, [error |-> Str("Order ID is required")])]
          ELSE IF ~Truthy(orderStatus)
          THEN req' = [req EXCEPT ![s] = Respond(r, 400, [error |-> Str("Order status is required")])]
          ELSE req' = [req EXCEPT ![s] = [r EXCEPT !.pc = "query"]]
    /\ UNCHANGED <<orders, nextId>>

\* the store executes the UPDATE; `was` remembers the rows it matched
UpdateOrderQuery(s) ==
    /\ req[s].op = "updateOrder" /\ req[s].pc = "query"
    /\ \/ /\ orders' = UpdateStatus(orders, IdOf(req[s].in.id), req[s].in.orderStatus)
          /\ req' = [req EXCEPT ![s].pc = "callback",
                                ![s].res = [affectedRows |-> Cardinality(Matching(orders, IdOf(req[s].in.id))),
                                            was |-> SelectById(orders, IdOf(req[s].in.id))]]
       \/ /\ req' = [req EXCEPT ![s].pc = "callback", ![s].res = DbError]
          /\ UNCHANGED orders
    /\ UNCHANGED nextId

UpdateOrderCallback(s) ==
    /\ req[s].op = "updateOrder" /\ req[s].pc = "callback"
    /\ IF "err" \in DOMAIN req[s].res
       THEN req' = [req EXCEPT ![s] =
                Respond(@, 500, [error |-> Str("Database error during order update"),
                                 details |-> req[s].res.err])]
       ELSE IF req[s].res.affectedRows = 0
       THEN req' = [req EXCEPT ![s] = Respond(@, 404, [error |-> Str("Order not found")])]
       ELSE req' = [req EXCEPT ![s] =
                Respond(@, 200, [message |-> Str("Order updated successfully"),
                                 updatedStatus |-> req[s].in.orderStatus])]
    /\ UNCHANGED <<orders, nextId>>

DeleteOrder(s, id) ==
    /\ Free(s)
    /\ IF ~Truthy(id)
       THEN req' = [req EXCEPT ![s] =
                Respond(NewReq("deleteOrder", [id |-> id]), 400,
                        [error |-> Str("Order ID is required")])]
       ELSE req' = [req EXCEPT ![s] =
                [NewReq("deleteOrder", [id |-> id]) EXCEPT !.pc = "query"]]
    /\ UNCHANGED <<orders, nextId>>

DeleteOrderQuery(s) ==
    /\ req[s].op = "deleteOrder" /\ req[s].pc = "query"
    /\ \/ /\ orders' = DeleteRow(orders, IdOf(req[s].in.id))
          /\ req' = [req EXCEPT ![s].pc = "callback",
                                ![s].res = [affectedRows |-> Cardinality(Matching(orders, IdOf(req[s].in.id)))]]
       \/ /\ req' = [req EXCEPT ![s].pc = "callback", ![s].res = DbError]
          /\ UNCHANGED orders
    /\ UNCHANGED nextId

DeleteOrderCallback(s) ==
    /\ req[s].op = "deleteOrder" /\ req[s].pc = "callback"
    /\ IF "err" \in DOMAIN req[s].res
       THEN req' = [req EXCEPT ![s] =
                Respond(@, 500, [error |-> Str("Database error during order deletion"),
                                 details |-> req[s].res.err])]
       ELSE IF req[s].res.affectedRows = 0
       THEN req' = [req EXCEPT ![s] = Respond(@, 404, [error |-> Str("Order not found")])]
       ELSE req' = [req EXCEPT ![s] =
                Respond(@, 200, [message |-> Str("Order deleted successfully"),
                                 deletedOrderId |-> req[s].in.id])]
    /\ UNCHANGED <<orders, nextId>>

\* identifiers and statuses carried by requests
IdParams == {Undefined} \cup {Num(k) : k \in 1..MaxOrders}
StatusParams == {Undefined, Str(""), Str("pending"), Str("captured"), Str("shipped")}

(***************************************************************************)
(* Gateway flow: createOrder, captureOrder and their routes.               *)
(* A promise settles as [resolved |-> value] or [rejected |-> message].    *)
(***************************************************************************)
\* Number.prototype.toFixed(2) of an amount in cents
ToFixed2(c) ==
    Str(ToString(c \div 100) \o "." \o (IF c % 100 < 10 THEN "0" ELSE "") \o ToString(c % 100))

\* validateCartData without the `cart.total <= 0` test
validateCartDataNoSign(cart) ==
    IF ~Truthy(cart) \/ ~Truthy(Prop(cart, "total"))
    THEN "Invalid cart: Total amount must be greater than zero"
    ELSE IF ~IsArray(Prop(cart, "items")) \/ Len(Prop(cart, "items").v) = 0
    THEN "Invalid cart: No items found"
    ELSE ""

\* validateCartData: the message of the Error it throws, "" when it returns
validateCartData(cart) ==
    IF ~Truthy(cart) \/ ~Truthy(Prop(cart, "total")) \/ Prop(cart, "total").v <= 0
    THEN "Invalid cart: Total amount must be greater than zero"
    ELSE IF ~IsArray(Prop(cart, "items")) \/ Len(Prop(cart, "items").v) = 0
    THEN "Invalid cart: No items found"
    ELSE ""

\* `item.price.toFixed(2)` throws a TypeError unless price is a number
ItemThrows(item) == ~CanRead(item) \/ Prop(item, "price").t # "number"

\* the request handed to ordersController.ordersCreate
CreateCollect(cart) ==
    [body |->
        [intent |-> Str("CAPTURE"),
         purchaseUnits |->
            <<[amount |-> [currencyCode |-> Str("USD"), value |-> ToFixed2(Prop(cart, "total").v)],
               items |-> [i \in 1..Len(Prop(cart, "items").v) |->
                            [name |-> Prop(Prop(cart, "items").v[i], "productName"),
                             quantity |-> Prop(Prop(cart, "items").v[i], "quantity"),
                             unit_amount |->
                                [currency_code |-> Str("USD"),
                                 value |-> ToFixed2(Prop(Prop(cart, "items").v[i], "price").v)]]]]>>],
     prefer |-> Str("return=minimal")]

\* createOrder up to the await: the error thrown, or the gateway request
CreateOrderBegin(cart) ==
    IF validateCartData(cart) # ""
    THEN [rejected |-> validateCartData(cart)]
    ELSE IF \E i \in 1..Len(Prop(cart, "items").v) : ItemThrows(Prop(cart, "items").v[i])
    THEN [rejected |-> "Cannot read properties of undefined (reading 'toFixed')"]
    ELSE [collect |-> CreateCollect(cart)]

\* JSON.parse of a response body given as tokens: a flat object, else a SyntaxError
IsObjectText(body) ==
    /\ Len(body) >= 2 /\ (Len(body) - 1) % 4 = 0
    /\ body[1] = Tok("{") /\ body[Len(body)] = Tok("}")

JSONParse(body) ==
    Obj([k \in {body[4 * i - 2].v : i \in 1..((Len(body) - 1) \div 4)} |->
            LET i == CHOOSE j \in 1..((Len(body) - 1) \div 4) : body[4 * j - 2].v = k
            IN body[4 * i]])

\* what a gateway call can deliver: a response, an ApiError, or another error
GatewayReply(body, code) == [kind |-> "response", body |-> body, statusCode |-> code]
GatewayApiError(msg) == [kind |-> "ApiError", message |-> msg]
GatewayFailure(msg) == [kind |-> "Error", message |-> msg]

CreatedBody == <<Tok("{"), Str("id"), Tok(":"), Str("EXT-1"), Tok(","),
                 Str("status"), Tok(":"), Str("CREATED"), Tok("}")>>
CapturedBody(id) == <<Tok("{"), Str("id"), Tok(":"), id, Tok(","),
                      Str("status"), Tok(":"), Str("COMPLETED"), Tok("}")>>
GarbledBody == <<Tok("<"), Str("html"), Tok(">")>>

CreateReplies ==
    {GatewayReply(CreatedBody, 201), GatewayReply(GarbledBody, 200),
     GatewayApiError("UNPROCESSABLE_ENTITY"), GatewayFailure("timeout of 5000ms exceeded")}

CaptureReplies(id) ==
    {GatewayReply(CapturedBody(id), 201), GatewayReply(GarbledBody, 200),
     GatewayApiError("ORDER_NOT_APPROVED"), GatewayFailure("timeout of 5000ms exceeded")}

\* a continuation that reports every gateway response as 200
SettleNormalized(reply, prefix) ==
    CASE reply.kind = "response" ->
           IF IsObjectText(reply.body)
           THEN [resolved |-> [jsonResponse |-> JSONParse(reply.body),
                               httpStatusCode |-> 200]]
           ELSE [rejected |-> "Unexpected token < in JSON at position 0"]
      [] reply.kind = "ApiError" -> [rejected |-> prefix \o reply.message]
      [] OTHER -> [rejected |-> reply.message]

\* the continuation after `await ordersController.ordersCreate/ordersCapture`
Settle(reply, prefix) ==
    CASE reply.kind = "response" ->
           IF IsObjectText(reply.body)
           THEN [resolved |-> [jsonResponse |-> JSONParse(reply.body),
                               httpStatusCode |-> reply.statusCode]]
           ELSE [rejected |-> "Unexpected token < in JSON at position 0"]
      [] reply.kind = "ApiError" -> [rejected |-> prefix \o reply.message]
      [] OTHER -> [rejected |-> reply.message]

\* the route's answer to the settled promise
RouteAnswer(r, p, summary) ==
    IF "resolved" \in DOMAIN p
    THEN Respond(r, p.resolved.httpStatusCode, p.resolved.jsonResponse.v)
    ELSE Respond(r, 500, [error |-> Str(summary), details |-> Str(p.rejected)])

\* a settled call or route: the promise is kept in res
Finish(r, p, route, summary) ==
    IF route THEN RouteAnswer([r EXCEPT !.res = p], p, summary)
    ELSE [r EXCEPT !.pc = "done", !.res = p]

\* createOrder(cart), called directly (route = FALSE) or by POST /api/orders
CreateOrderStart(r, cart, route) ==
    IF "collect" \in DOMAIN CreateOrderBegin(cart)
    THEN [r EXCEPT !.pc = "gateway", !.res = CreateOrderBegin(cart), !.gwCreate = @ + 1]
    ELSE Finish(r, CreateOrderBegin(cart), route, "Failed to create order")

createOrder(s, cart) ==
    /\ Free(s)
    /\ req' = [req EXCEPT ![s] =
            CreateOrderStart(NewReq("createOrder", [cart |-> cart]), cart, FALSE)]
    /\ UNCHANGED <<orders, nextId>>

PostOrders(s, cart) ==
    /\ Free(s)
    /\ IF ~Truthy(cart)
       THEN req' = [req EXCEPT ![s] =
                Respond(NewReq("POST /api/orders", [cart |-> cart]), 400,
                        [error |-> Str("Cart data is required")])]
       ELSE req' = [req EXCEPT ![s] =
                CreateOrderStart(NewReq("POST /api/orders", [cart |-> cart]), cart, TRUE)]
    /\ UNCHANGED <<orders, nextId>>

\* CreateOrderReturn that also records the authorized order in the store
CreateOrderReturnPersisting(s) ==
    /\ req[s].op \in {"createOrder", "POST /api/orders"} /\ req[s].pc = "gateway"
    /\ \E reply \in CreateReplies :
         /\ req' = [req EXCEPT ![s] =
               Finish([@ EXCEPT !.reply = reply], Settle(reply, "PayPal API Error: "),
                      req[s].op = "POST /api/orders", "Failed to create order")]
         /\ IF reply.kind = "response" /\ nextId <= MaxOrders
            THEN /\ orders' = InsertRow(orders, nextId, OrderValues(BaseBody))
                 /\ nextId' = nextId + 1
            ELSE UNCHANGED <<orders, nextId>>

CreateOrderReturn(s) ==
    /\ req[s].op \in {"createOrder", "POST /api/orders"} /\ req[s].pc = "gateway"
    /\ \E reply \in CreateReplies :
         req' = [req EXCEPT ![s] =
            Finish([@ EXCEPT !.reply = reply], Settle(reply, "PayPal API Error: "),
                   req[s].op = "POST /api/orders", "Failed to create order")]
    /\ UNCHANGED <<orders, nextId>>

\* the guard written as `orderID === undefined`
MissingOrderIDStrict(orderID) == orderID.t = "undefined"

\* captureOrder(orderID), called directly or by POST /api/orders/:orderID/capture
MissingOrderID(orderID) == ~Truthy(orderID)

\* captureOrder with a local record of the ids already sent to the gateway
CaptureOrderStartDedup(r, orderID, route) ==
    IF MissingOrderID(orderID)
    THEN Finish(r, [rejected |-> "Order ID is required"], route, "Failed to capture order")
    ELSE IF \E t \in Slots : /\ req[t].gwCapture > 0
                             /\ req[t].in = [orderID |-> orderID]
    THEN Finish(r, [rejected |-> "Order already captured"], route, "Failed to capture order")
    ELSE [r EXCEPT !.pc = "gateway",
                   !.res = [collect |-> [id |-> orderID, prefer |-> Str("return=minimal")]],
                   !.gwCapture = @ + 1]

CaptureOrderStart(r, orderID, route) ==
    IF MissingOrderID(orderID)
    THEN Finish(r, [rejected |-> "Order ID is required"], route, "Failed to capture order")
    ELSE [r EXCEPT !.pc = "gateway",
                   !.res = [collect |-> [id |-> orderID, prefer |-> Str("return=minimal")]],
                   !.gwCapture = @ + 1]

captureOrder(s, orderID) ==
    /\ Free(s)
    /\ req' = [req EXCEPT ![s] =
            CaptureOrderStart(NewReq("captureOrder", [orderID |-> orderID]), orderID, FALSE)]
    /\ UNCHANGED <<orders, nextId>>

PostCapture(s, orderID) ==
    /\ Free(s)
    /\ IF ~Truthy(orderID)
       THEN req' = [req EXCEPT ![s] =
                Respond(NewReq("POST /api/orders/:orderID/capture", [orderID |-> orderID]), 400,
                        [error |-> Str("Order ID is required")])]
       ELSE req' = [req EXCEPT ![s] =
                CaptureOrderStart(NewReq("POST /api/orders/:orderID/capture", [orderID |-> orderID]),
                                  orderID, TRUE)]
    /\ UNCHANGED <<orders, nextId>>

CaptureOrderReturn(s) ==
    /\ req[s].op \in {"captureOrder", "POST /api/orders/:orderID/capture"} /\ req[s].pc = "gateway"
    /\ \E reply \in CaptureReplies(req[s].in.orderID) :
         req' = [req EXCEPT ![s] =
            Finish([@ EXCEPT !.reply = reply], Settle(reply, "PayPal API Capture Error: "),
                   req[s].op = "POST /api/orders/:orderID/capture", "Failed to capture order")]
    /\ UNCHANGED <<orders, nextId>>

\* the caller captures with the id that the createOrder of slot t returned
CaptureReturned(s, t) ==
    /\ req[t].op = "createOrder" /\ req[t].pc = "done"
    /\ "resolved" \in DOMAIN req[t].res
    /\ captureOrder(s, Prop(req[t].res.resolved.jsonResponse, "id"))

PostCaptureReturned(s, t) ==
    /\ req[t].op = "POST /api/orders" /\ req[t].pc = "done"
    /\ "resolved" \in DOMAIN req[t].res
    /\ PostCapture(s, Prop(Obj(req[t].out[1].body), "id"))

\* carts and order identifiers carried by gateway requests
CartOf(total, items) == Obj([total |-> total, items |-> items])
Item2 == Obj([productName |-> Str("B"), quantity |-> Num(1)])

Carts ==
    {Undefined}
    \cup {CartOf(t, i) : t \in {Undefined, Num(0), Num(-100), Num(600)},
                         i \in {Undefined, Obj([length |-> Num(1)]), Arr(<< >>), Arr(<<Item1>>)}}
    \cup {CartOf(Num(600), Arr(<<Item1, Item2>>))}

OrderIDs == {Undefined, Str(""), Str("EXT-1"), Str("EXT-9")}

(***************************************************************************)
(* Specifications.                                                         *)
(***************************************************************************)
\* request bodies of the concurrent placeOrder specification
ConcBodies ==
    {BaseBody, [BaseBody EXCEPT !.totalAmount = Num(0)]}
    \cup {[BaseBody EXCEPT !.order_status = x] : x \in {Str(""), Str("captured")}}

\* placeOrder alone, one request at a time, every request body
PlaceNext ==
    \/ \E b \in PlaceBodies : PlaceOrder(1, b)
    \/ PlaceOrderInsert(1)
    \/ PlaceOrderCallback(1)
    \/ PlaceOrderNotified(1)

SpecPlace == Init /\ [][PlaceNext]_vars

\* the store handlers, one request at a time
StoreNext ==
    \/ PlaceNext
    \/ \E id \in IdParams, st \in StatusParams : UpdateOrder(1, id, st)
    \/ UpdateOrderQuery(1)
    \/ UpdateOrderCallback(1)
    \/ \E id \in IdParams : DeleteOrder(1, id)
    \/ DeleteOrderQuery(1)
    \/ DeleteOrderCallback(1)
    \/ \E id \in IdParams : GetOrderById(1, id)
    \/ GetOrderByIdQuery(1)
    \/ GetOrderByIdCallback(1)
    \/ GetAllOrder(1)
    \/ GetAllOrderQuery(1)
    \/ GetAllOrderCallback(1)

SpecStore == Init /\ [][StoreNext]_vars

\* the gateway flow next to the store-first flow, one request at a time
GatewayNext ==
    \/ \E c \in Carts : createOrder(1, c)
    \/ \E c \in Carts : PostOrders(1, c)
    \/ CreateOrderReturn(1)
    \/ \E o \in OrderIDs : captureOrder(1, o)
    \/ \E o \in OrderIDs : PostCapture(1, o)
    \/ CaptureOrderReturn(1)
    \/ PlaceOrder(1, BaseBody)
    \/ PlaceOrderInsert(1)
    \/ PlaceOrderCallback(1)
    \/ PlaceOrderNotified(1)

SpecGateway == Init /\ [][GatewayNext]_vars

\* placeOrder requests in flight at once
PlaceConcNext ==
    \E s \in Slots :
        \/ \E b \in ConcBodies : PlaceOrder(s, b)
        \/ PlaceOrderInsert(s)
        \/ PlaceOrderCallback(s)
        \/ PlaceOrderNotified(s)

SpecPlaceConc == Init /\ [][PlaceConcNext]_vars

\* create then capture: slot 1 creates, slot 2 captures, with the returned
\* id or with any other
FlowCarts == {Undefined, CartOf(Num(600), Arr(<<Item1>>)), CartOf(Num(0), Arr(<<Item1>>))}

FlowANext ==
    \/ \E c \in FlowCarts : createOrder(1, c)
    \/ \E c \in FlowCarts : PostOrders(1, c)
    \/ CreateOrderReturn(1)
    \/ CaptureReturned(2, 1)
    \/ PostCaptureReturned(2, 1)
    \/ \E o \in OrderIDs : captureOrder(2, o)
    \/ CaptureOrderReturn(2)

SpecFlowA == Init /\ [][FlowANext]_vars

\* updateOrder requests in flight at once on an order placed before; a slot
\* runs placeOrder requests and then at most one updateOrder request
ConcIds == {Num(1)}
ConcStatuses == {Str("captured"), Str("failed")}

Unused(s) == req[s].op \in {"none", "placeOrder"}

UpdateConcNext ==
    \E s \in Slots :
        \/ Unused(s) /\ PlaceOrder(s, BaseBody)
        \/ PlaceOrderInsert(s)
        \/ PlaceOrderCallback(s)
        \/ PlaceOrderNotified(s)
        \/ \E id \in ConcIds, st \in ConcStatuses : Unused(s) /\ UpdateOrder(s, id, st)
        \/ UpdateOrderQuery(s)
        \/ UpdateOrderCallback(s)

SpecUpdateConc == Init /\ [][UpdateConcNext]_vars

\* capture requests in flight at once
CaptureConcNext ==
    \E s \in Slots :
        \/ \E o \in OrderIDs : captureOrder(s, o)
        \/ \E o \in OrderIDs : PostCapture(s, o)
        \/ CaptureOrderReturn(s)

SpecCaptureConc == Init /\ [][CaptureConcNext]_vars

\* every route and handler, one request at a time, where every external call
\* (store, gateway, notification) eventually calls back
LiveStatuses == {Undefined, Str("captured")}

Arrive(s) ==
    \/ \E b \in ConcBodies : PlaceOrder(s, b)
    \/ \E id \in IdParams, st \in LiveStatuses : UpdateOrder(s, id, st)
    \/ \E id \in IdParams : DeleteOrder(s, id)
    \/ \E id \in IdParams : GetOrderById(s, id)
    \/ GetAllOrder(s)
    \/ \E c \in FlowCarts : PostOrders(s, c)
    \/ \E o \in OrderIDs : PostCapture(s, o)

Continue(s) ==
    \/ PlaceOrderInsert(s)
    \/ PlaceOrderCallback(s)
    \/ PlaceOrderNotified(s)
    \/ UpdateOrderQuery(s)
    \/ UpdateOrderCallback(s)
    \/ DeleteOrderQuery(s)
    \/ DeleteOrderCallback(s)
    \/ GetOrderByIdQuery(s)
    \/ GetOrderByIdCallback(s)
    \/ GetAllOrderQuery(s)
    \/ GetAllOrderCallback(s)
    \/ CreateOrderReturn(s)
    \/ CaptureOrderReturn(s)

LiveNext == Arrive(1) \/ Continue(1)

SpecLive == Init /\ [][LiveNext]_vars /\ WF_vars(Continue(1))

(***************************************************************************)
(* Properties.                                                             *)
(***************************************************************************)
IsPlace(s) == req[s].op = "placeOrder"
Done(s) == req[s].pc = "done"
Answer(s) == req[s].out[1]
Inserted(s) == "insertId" \in DOMAIN req[s].res
NotificationRejected(s) == "emailError" \in DOMAIN req[s].res

\* C1: when the notification dispatch fails after placeOrder persisted the
\* order, the answer is the 201 'created' outcome and carries a non-empty
\* notification-error detail.
C1_NotificationFailureStillCreated ==
    \A s \in Slots :
        (IsPlace(s) /\ Done(s) /\ NotificationRejected(s)) =>
            /\ Answer(s).status = 201
            /\ "details" \in DOMAIN Answer(s).body
            /\ Answer(s).body.details # Str("")

\* C2: every placeOrder request whose insert succeeded answers with the
\* identifier the store assigned, whether the notification succeeded or not.
C2_AnswerCarriesOrderId ==
    \A s \in Slots :
        (IsPlace(s) /\ Done(s) /\ Inserted(s)) =>
            /\ "orderId" \in DOMAIN Answer(s).body
            /\ Answer(s).body.orderId = Num(req[s].res.insertId)

\* C3: no persisted order has a total amount <= 0 and no persisted order has
\* an empty item snapshot.
C3_NoWorthlessOrderStored ==
    \A k \in DOMAIN orders :
        /\ orders[k].totalAmount.t = "number" /\ orders[k].totalAmount.v > 0
        /\ orders[k].cartItems # <<Tok("["), Tok("]")>>

\* C4: a placeOrder request without customer, without items or with an empty
\* item sequence, without totalAmount or without paymentMethod ends with 400,
\* attempts no insert and sends no notification.
LacksRequiredField(b) ==
    \/ b.user = Undefined
    \/ b.cartItems = Undefined
    \/ b.cartItems = Arr(<< >>)
    \/ b.totalAmount = Undefined
    \/ b.paymentMethod = Undefined

C4_IncompleteOrderRejected ==
    \A s \in Slots :
        (IsPlace(s) /\ LacksRequiredField(req[s].in)) =>
            /\ req[s].inserts = 0
            /\ req[s].notified = 0
            /\ req[s].added = {}
            /\ Done(s) => Answer(s).status = 400

\* C5: for a cart that is absent, whose total is absent or <= 0, or whose
\* items are not a non-empty sequence, createOrder rejects with the
\* invalid-cart error, makes no gateway createAuthorization call and writes
\* nothing to the store.
IsCreate(s) == req[s].op \in {"createOrder", "POST /api/orders"}

CartRejectedBySpec(cart) ==
    \/ cart = Undefined
    \/ Prop(cart, "total") = Undefined
    \/ (Prop(cart, "total").t = "number" /\ ~(Prop(cart, "total").v > 0))
    \/ Prop(cart, "items").t # "array"
    \/ Prop(cart, "items") = Arr(<< >>)

InvalidCartMessages ==
    {"Invalid cart: Total amount must be greater than zero", "Invalid cart: No items found"}

C5_InvalidCartNeverReachesGateway ==
    /\ [](\A s \in Slots :
            (IsCreate(s) /\ CartRejectedBySpec(req[s].in.cart)) =>
                /\ req[s].gwCreate = 0
                /\ req[s].inserts = 0
                /\ req[s].pc # "gateway"
                /\ (Done(s) /\ req[s].op = "createOrder") =>
                      /\ "rejected" \in DOMAIN req[s].res
                      /\ req[s].res.rejected \in InvalidCartMessages
                /\ (Done(s) /\ req[s].op = "POST /api/orders") =>
                      \/ Answer(s).status = 400
                      \/ /\ Answer(s).status = 500
                         /\ Answer(s).body.details \in {Str(m) : m \in InvalidCartMessages})
    /\ [][\A s \in Slots :
            (req'[s] # req[s] /\ req'[s].op \in {"createOrder", "POST /api/orders"}
                /\ CartRejectedBySpec(req'[s].in.cart)) => UNCHANGED <<orders, nextId>>]_vars

C5_Witness ==
    \E s \in Slots :
        /\ req[s].op = "createOrder" /\ Done(s)
        /\ req[s].in.cart = CartOf(Num(-100), Arr(<<Item1>>))
        /\ req[s].res = [rejected |-> "Invalid cart: Total amount must be greater than zero"]
        /\ req[s].gwCreate = 0
        /\ orders # << >>

\* C6: captureOrder with an empty or absent identifier fails with
\* 'Order ID is required' and never invokes the gateway's capture operation.
IsCapture(s) == req[s].op \in {"captureOrder", "POST /api/orders/:orderID/capture"}

C6_CaptureRequiresOrderId ==
    \A s \in Slots :
        (IsCapture(s) /\ req[s].in.orderID \in {Undefined, Str("")}) =>
            /\ req[s].gwCapture = 0
            /\ req[s].pc = "done"
            /\ req[s].op = "captureOrder" => req[s].res = [rejected |-> "Order ID is required"]
            /\ req[s].op = "POST /api/orders/:orderID/capture" =>
                  /\ Answer(s).status = 400
                  /\ Answer(s).body.error = Str("Order ID is required")

C6_Witness ==
    \E s \in Slots :
        /\ req[s].op = "captureOrder" /\ Done(s)
        /\ req[s].in.orderID = Str("")
        /\ req[s].res = [rejected |-> "Order ID is required"]
        /\ req[s].gwCapture = 0

\* C7: the identifier a successful placeOrder returns is that of exactly one
\* record, newly added to the store by that request and by no other request
\* in flight, and the record's order_status is 'pending' when the request
\* carried no order_status (absent or empty) and the carried value otherwise.
ExpectedStatus(b) ==
    IF b.order_status \in {Undefined, Str("")} THEN Str("pending") ELSE b.order_status

C7_OneNewRecordPerPlacement ==
    /\ [](\A s \in Slots :
            (IsPlace(s) /\ Done(s) /\ Answer(s).status = 201) =>
                /\ Cardinality(req[s].added) = 1
                /\ \A id \in req[s].added :
                      /\ Answer(s).body.orderId = Num(id)
                      /\ \A t \in Slots \ {s} : id \notin req[t].added)
    /\ [][\A s \in Slots :
            (req[s].pc = "query" /\ IsPlace(s) /\ Inserted(s)') =>
                \E id \in DOMAIN orders' \ DOMAIN orders :
                    /\ DOMAIN orders' = DOMAIN orders \cup {id}
                    /\ \A k \in DOMAIN orders : orders'[k] = orders[k]
                    /\ req'[s].res.insertId = id
                    /\ req'[s].added = {id}
                    /\ orders'[id].order_status = ExpectedStatus(req[s].in)]_vars

\* two placements answered 201 side by side, one defaulted and one supplied
C7_Witness ==
    \E s, t \in Slots :
        /\ s # t
        /\ IsPlace(s) /\ Done(s) /\ Answer(s).status = 201
        /\ IsPlace(t) /\ Done(t) /\ Answer(t).status = 201
        /\ req[s].in.order_status = Undefined
        /\ req[t].in.order_status = Str("captured")
        /\ Answer(s).body.orderId = Num(2) /\ Answer(t).body.orderId = Num(1)
        /\ orders[2].order_status = Str("pending")
        /\ orders[1].order_status = Str("captured")

\* C8: updateOrder on an identifier that is not in the store answers 404 and
\* leaves every record of the store unchanged.
IsUpdate(s) == req[s].op = "updateOrder"
Executed(s) == "affectedRows" \in DOMAIN req[s].res

C8_UpdateOfUnknownIdNotFound ==
    /\ [](\A s \in Slots :
            (IsUpdate(s) /\ Done(s) /\ Executed(s) /\ Len(req[s].res.was) = 0) =>
                Answer(s).status = 404)
    /\ [][\A s \in Slots :
            (IsUpdate(s) /\ req[s].pc = "query" /\ req'[s].pc = "callback"
                /\ IdOf(req[s].in.id) \notin DOMAIN orders) =>
                    /\ orders' = orders
                    /\ Executed(s)' => Len(req'[s].res.was) = 0]_vars

C8_Witness ==
    \E s \in Slots :
        /\ IsUpdate(s) /\ Done(s) /\ Answer(s).status = 404
        /\ IdOf(req[s].in.id) \notin DOMAIN orders
        /\ orders # << >>

\* C9: updateOrder on an existing identifier with a supplied status overwrites
\* the record's status with that value whatever the current status is, and
\* answers success with that value.
C9_UpdateOverwritesUnconditionally ==
    /\ [](\A s \in Slots :
            (IsUpdate(s) /\ Done(s) /\ Executed(s) /\ Len(req[s].res.was) > 0) =>
                /\ Answer(s).status = 200
                /\ Answer(s).body.updatedStatus = req[s].in.orderStatus)
    /\ [][\A s \in Slots :
            (IsUpdate(s) /\ req[s].pc = "query" /\ Executed(s)'
                /\ IdOf(req[s].in.id) \in DOMAIN orders) =>
                    /\ DOMAIN orders' = DOMAIN orders
                    /\ orders'[IdOf(req[s].in.id)].order_status = req[s].in.orderStatus
                    /\ Len(req'[s].res.was) > 0]_vars

\* a backward transition: captured back to pending
C9_Witness ==
    \E s \in Slots :
        /\ IsUpdate(s) /\ Done(s) /\ Answer(s).status = 200
        /\ req[s].in.orderStatus = Str("pending")
        /\ Len(req[s].res.was) = 1
        /\ req[s].res.was[1].order_status = Str("captured")
        /\ IdOf(req[s].in.id) \in DOMAIN orders
        /\ orders[IdOf(req[s].in.id)].order_status = Str("pending")

\* C10: createOrder and captureOrder never create or change an order record,
\* whether the gateway call fails, times out or succeeds.
IsGateway(s) == IsCreate(s) \/ IsCapture(s)

C10_GatewayFlowLeavesStoreAlone ==
    /\ [](\A s \in Slots : IsGateway(s) => (req[s].inserts = 0 /\ req[s].added = {}))
    /\ [][\A s \in Slots :
            (req'[s] # req[s] /\ IsGateway(s)') => UNCHANGED <<orders, nextId>>]_vars

\* an authorization granted while an order record exists
C10_Witness ==
    \E s \in Slots :
        /\ req[s].op = "createOrder" /\ Done(s)
        /\ "resolved" \in DOMAIN req[s].res
        /\ req[s].res.resolved.httpStatusCode = 201
        /\ req[s].gwCreate = 1
        /\ orders # << >>

\* C11: placeOrder invokes the notification dispatcher only after its insert
\* completed successfully; when the insert fails the request ends with the
\* persistence-error answer (500) and the dispatcher is never invoked.
InsertFailed(s) == "err" \in DOMAIN req[s].res

C11_NotifyOnlyAfterInsert ==
    /\ [](\A s \in Slots :
            IsPlace(s) =>
                /\ req[s].notified > 0 => (Inserted(s) /\ req[s].added # {})
                /\ InsertFailed(s) =>
                      /\ req[s].notified = 0
                      /\ req[s].pc \in {"callback", "done"}
                      /\ Done(s) =>
                            /\ Answer(s).status = 500
                            /\ Answer(s).body.error = Str("Erreur lors de la creation de la commande."))
    /\ [][\A s \in Slots :
            (req'[s].notified > req[s].notified) =>
                /\ IsPlace(s) /\ req[s].pc = "callback" /\ Inserted(s)
                /\ req[s].res.insertId \in DOMAIN orders]_vars

C11_Witness ==
    \E s \in Slots :
        /\ IsPlace(s) /\ Done(s) /\ InsertFailed(s)
        /\ Answer(s).status = 500
        /\ req[s].inserts = 1 /\ req[s].notified = 0

\* C12: every failure answer of every operation is a structured error object
\* with both an `error` summary and a `details` field.
IsFailure(s) == Done(s) /\ Len(req[s].out) > 0 /\ Answer(s).status >= 400

C12_FailuresCarryErrorAndDetails ==
    \A s \in Slots :
        IsFailure(s) =>
            /\ "error" \in DOMAIN Answer(s).body
            /\ "details" \in DOMAIN Answer(s).body

\* C13: when createOrder succeeded and the caller captures with the returned
\* external id and the gateway accepts, captureOrder succeeds and returns the
\* gateway's payload and status code unchanged.
Accepted(s) ==
    /\ "kind" \in DOMAIN req[s].reply
    /\ req[s].reply.kind = "response"
    /\ req[s].reply.body[1] = Tok("{")

\* obj has exactly the members the body text lists, with the same values
SamePayload(obj, body) ==
    /\ obj.t = "object"
    /\ Cardinality(DOMAIN obj.v) = (Len(body) - 1) \div 4
    /\ \A i \in 1..((Len(body) - 1) \div 4) :
          /\ body[4 * i - 2].v \in DOMAIN obj.v
          /\ obj.v[body[4 * i - 2].v] = body[4 * i]

C13_CaptureReturnsGatewayAnswer ==
    \A s \in Slots :
        (IsCapture(s) /\ Done(s) /\ Accepted(s)) =>
            /\ "resolved" \in DOMAIN req[s].res
            /\ req[s].res.resolved.httpStatusCode = req[s].reply.statusCode
            /\ SamePayload(req[s].res.resolved.jsonResponse, req[s].reply.body)
            /\ req[s].op = "POST /api/orders/:orderID/capture" =>
                  /\ Answer(s).status = req[s].reply.statusCode
                  /\ SamePayload(Obj(Answer(s).body), req[s].reply.body)

C13_Witness ==
    /\ req[1].op = "createOrder" /\ Done(1)
    /\ "resolved" \in DOMAIN req[1].res
    /\ req[2].op = "captureOrder" /\ Done(2) /\ Accepted(2)
    /\ req[2].in.orderID = Prop(req[1].res.resolved.jsonResponse, "id")
    /\ req[2].res.resolved.httpStatusCode = 201
    /\ Prop(req[2].res.resolved.jsonResponse, "id") = req[2].in.orderID
    /\ Prop(req[2].res.resolved.jsonResponse, "status") = Str("COMPLETED")

\* C14: concurrent updateOrder requests for the same existing identifier are
\* not serialized: each answers success with its own status, and the record's
\* status is the value of the store write applied last, never a value that no
\* request supplied.
Writers(k) ==
    {s \in Slots : IsUpdate(s) /\ Executed(s) /\ IdOf(req[s].in.id) = k /\ Len(req[s].res.was) > 0}

C14_LastWriteWins ==
    /\ [](\A k \in DOMAIN orders :
            /\ Writers(k) # {} =>
                  orders[k].order_status \in {req[s].in.orderStatus : s \in Writers(k)}
            /\ \A s \in Writers(k) :
                  Done(s) => /\ Answer(s).status = 200
                             /\ Answer(s).body.updatedStatus = req[s].in.orderStatus)
    /\ [][\A k \in DOMAIN orders :
            (k \in DOMAIN orders' /\ orders'[k].order_status # orders[k].order_status) =>
                \E s \in Slots :
                    /\ IsUpdate(s) /\ req[s].pc = "query" /\ req'[s].pc = "callback"
                    /\ IdOf(req[s].in.id) = k
                    /\ orders'[k].order_status = req[s].in.orderStatus]_vars
    /\ [][\A s \in Slots :
            (IsUpdate(s) /\ req[s].pc = "query" /\ Executed(s)'
                /\ IdOf(req[s].in.id) \in DOMAIN orders) =>
                    orders'[IdOf(req[s].in.id)].order_status = req[s].in.orderStatus]_vars

\* two updates of order 1 in flight, both applied and neither answered yet:
\* t was applied after s and its value stands
C14_Witness ==
    \E s, t \in Slots :
        /\ s # t
        /\ IsUpdate(s) /\ req[s].pc = "callback" /\ Executed(s)
        /\ IsUpdate(t) /\ req[t].pc = "callback" /\ Executed(t)
        /\ req[s].in.id = Num(1) /\ req[t].in.id = Num(1)
        /\ req[s].in.orderStatus # req[t].in.orderStatus
        /\ Len(req[s].res.was) = 1 /\ Len(req[t].res.was) = 1
        /\ req[s].res.was[1].order_status = Str("pending")
        /\ req[t].res.was[1].order_status = req[s].in.orderStatus
        /\ orders[1].order_status = req[t].in.orderStatus

\* C15: captureOrder performs no local deduplication: the number of gateway
\* capture calls equals the number of capture requests that carried a
\* non-empty identifier, repeated and concurrent requests included.
RECURSIVE CaptureCalls(_)
CaptureCalls(S) ==
    IF S = {} THEN 0
    ELSE LET s == CHOOSE x \in S : TRUE IN req[s].gwCapture + CaptureCalls(S \ {s})

CapturesWithId == {s \in Slots : IsCapture(s) /\ req[s].in.orderID \notin {Undefined, Str("")}}

C15_OneGatewayCallPerCapture ==
    /\ CaptureCalls(Slots) = Cardinality(CapturesWithId)
    /\ \A s \in CapturesWithId : req[s].gwCapture = 1

\* the same identifier being captured by two requests at once
C15_Witness ==
    \E s, t \in Slots :
        /\ s # t
        /\ IsCapture(s) /\ req[s].pc = "gateway"
        /\ IsCapture(t) /\ req[t].pc = "gateway"
        /\ req[s].in.orderID = Str("EXT-1") /\ req[t].in.orderID = Str("EXT-1")
        /\ req[s].gwCapture = 1 /\ req[t].gwCapture = 1

\* C16: the status of every persisted order is one of pending, authorized,
\* captured, failed.
OrderStatus == {Str("pending"), Str("authorized"), Str("captured"), Str("failed")}

C16_StatusWithinEnum ==
    \A k \in DOMAIN orders : orders[k].order_status \in OrderStatus

\* C17: deleteOrder on an existing identifier removes the record and reports
\* the deleted id; from then on (the store never hands the identifier out
\* again) getOrderById, updateOrder and deleteOrder on it answer 404; and
\* deleteOrder on an identifier not in the store answers 404 and leaves the
\* store unchanged.
IsDelete(s) == req[s].op = "deleteOrder"
IsGet(s) == req[s].op = "getOrderById"
Target(s) == IdOf(req[s].in.id)
Runs(s) == req[s].pc = "query" /\ req'[s].pc = "callback" /\ "err" \notin DOMAIN req'[s].res

C17_DeletedStaysNotFound ==
    /\ [](\A s \in Slots :
            /\ (IsDelete(s) /\ Done(s) /\ Executed(s) /\ req[s].res.affectedRows > 0) =>
                  /\ Answer(s).status = 200
                  /\ Answer(s).body.deletedOrderId = req[s].in.id
                  /\ Target(s) \notin DOMAIN orders
            /\ (IsDelete(s) /\ Done(s) /\ Executed(s) /\ req[s].res.affectedRows = 0) =>
                  Answer(s).status = 404
            /\ (IsGet(s) /\ Done(s) /\ "results" \in DOMAIN req[s].res /\ Len(req[s].res.results) = 0) =>
                  Answer(s).status = 404
            /\ (IsUpdate(s) /\ Done(s) /\ Executed(s) /\ req[s].res.affectedRows = 0) =>
                  Answer(s).status = 404)
    /\ [][\A s \in Slots :
            /\ (IsDelete(s) /\ Runs(s) /\ Target(s) \in DOMAIN orders) =>
                  /\ DOMAIN orders' = DOMAIN orders \ {Target(s)}
                  /\ \A k \in DOMAIN orders' : orders'[k] = orders[k]
                  /\ req'[s].res.affectedRows = 1
            /\ (IsDelete(s) /\ Runs(s) /\ Target(s) \notin DOMAIN orders) =>
                  /\ orders' = orders
                  /\ req'[s].res.affectedRows = 0
            /\ (IsGet(s) /\ Runs(s) /\ Target(s) \notin DOMAIN orders) =>
                  Len(req'[s].res.results) = 0
            /\ (IsUpdate(s) /\ Runs(s) /\ Target(s) \notin DOMAIN orders) =>
                  req'[s].res.affectedRows = 0]_vars
    /\ [][\A k \in 1..(nextId - 1) : k \notin DOMAIN orders => k \notin DOMAIN orders']_vars

\* order 1 was placed and deleted, and a later getOrderById(1) got 404
C17_Witness ==
    \E s \in Slots :
        /\ IsGet(s) /\ Done(s) /\ Answer(s).status = 404
        /\ Target(s) = 1 /\ nextId > 1
        /\ 1 \notin DOMAIN orders

\* C18: stored orders change only through placeOrder, updateOrder and
\* deleteOrder, each with a minimal footprint: an update changes only the
\* status of its target, a delete removes only its target, a placement only
\* adds one record, and getAllOrder and getOrderById change nothing.
Executes(s) == req[s].pc = "query" /\ req'[s].pc = "callback"
OthersKept(S) == \A k \in DOMAIN orders \ S : k \in DOMAIN orders' /\ orders'[k] = orders[k]

C18_MinimalFootprint ==
    /\ [][orders' # orders =>
            \E s \in Slots :
                /\ req[s].op \in {"placeOrder", "updateOrder", "deleteOrder"}
                /\ Executes(s)]_vars
    /\ [][\A s \in Slots :
            /\ (IsUpdate(s) /\ Executes(s)) =>
                  /\ DOMAIN orders' = DOMAIN orders
                  /\ OthersKept({Target(s)})
                  /\ Target(s) \in DOMAIN orders =>
                        [orders'[Target(s)] EXCEPT !.order_status = orders[Target(s)].order_status]
                            = orders[Target(s)]
            /\ (IsDelete(s) /\ Executes(s)) =>
                  /\ DOMAIN orders' \subseteq DOMAIN orders
                  /\ OthersKept({Target(s)})
            /\ (IsPlace(s) /\ Executes(s)) =>
                  /\ OthersKept({})
                  /\ Cardinality(DOMAIN orders' \ DOMAIN orders) <= 1
            /\ (req[s].op \in {"getAllOrder", "getOrderById"} /\ req'[s] # req[s]) =>
                  orders' = orders]_vars

\* order 1 deleted while order 2 stays
C18_Witness ==
    \E s \in Slots :
        /\ IsDelete(s) /\ Done(s) /\ Answer(s).status = 200
        /\ Target(s) = 1
        /\ DOMAIN orders = {2}

\* C19: provided every external call eventually returns, every request
\* eventually reaches a terminal outcome and sends exactly one response:
\* never none and never two.
InFlight(s) == req[s].pc \notin {"idle", "done"}

C19_ExactlyOneResponse ==
    /\ [](\A s \in Slots :
            /\ Len(req[s].out) <= 1
            /\ Done(s) => Len(req[s].out) = 1
            /\ InFlight(s) => Len(req[s].out) = 0)
    /\ \A s \in Slots : InFlight(s) ~> Done(s)

\* the answer of placeOrder's outer catch, sent alone
C19_Witness ==
    \E s \in Slots :
        /\ IsPlace(s) /\ Done(s) /\ ~IncompleteOrder(req[s].in)
        /\ req[s].out = <<Response(500, [error |-> Str("Erreur lors de la creation de la commande.")])>>

====
